---------------------------- MODULE Spec2Model ----------------------------
(* CMSIS-DAP HID transport backend: src/jtag/drivers/cmsis_dap_usb_hid.c.   *)
(* One session (struct cmsis_dap) driven through the backend's operations:  *)
(* open, close, read, write, packet_buffer_alloc, packet_buffer_free and    *)
(* cancel_all, against a host HID library whose calls may fail.             *)
EXTENDS Integers, Sequences, FiniteSets, TLC

(***************************************************************************)
(* Bounds of the model.                                                    *)
(***************************************************************************)
\* longest device enumeration the host returns
MaxDevs == 2
\* open calls in one run
MaxOpens == 1

(***************************************************************************)
(* Program constants.                                                      *)
(***************************************************************************)
ERROR_OK == 0
ERROR_FAIL == -4
ERROR_TIMEOUT_REACHED == -6
REPORT_ID_SIZE == 1
DEFAULT_PACKET_SIZE == 64
LPC_LINK2_VID == 8137
LPC_LINK2_PID == 144
CMSIS_DAP_NON_BLOCKING == 0
CMSIS_DAP_BLOCKING == 1

(***************************************************************************)
(* Text.  A wide or narrow string is a sequence of character codes; a      *)
(* pointer to one may be NULL.                                             *)
(***************************************************************************)
NULLSTR == [null |-> TRUE, s |-> <<>>]
Str(s) == [null |-> FALSE, s |-> s]

\* L"CMSIS-DAP"
MARKER == <<67, 77, 83, 73, 83, 45, 68, 65, 80>>

\* wcsstr(hay, needle) != NULL
wcsstr(hay, needle) ==
    \E i \in 0..(Len(hay) - Len(needle)) :
        SubSeq(hay, i + 1, i + Len(needle)) = needle

\* wcscmp(a, b) == 0
wcscmp_eq(a, b) == a = b

\* mbstowcs fails (returns (size_t)-1) on a byte that starts no valid
\* character; in the "C" locale that is every byte above 127
mbstowcs_fails(serial) == \E i \in 1..Len(serial) : serial[i] > 127

\* mbstowcs(NULL, serial, 0) + 1, in size_t: (size_t)-1 + 1 wraps to 0
wserial_len(serial) ==
    IF mbstowcs_fails(serial) THEN 0 ELSE Len(serial) + 1

\* mbstowcs(wserial, serial, len): the wide characters written
mbstowcs(serial) == [i \in 1..Len(serial) |-> serial[i]]

(***************************************************************************)
(* report_size_quirks, sentinel included.                                  *)
(***************************************************************************)
report_size_quirks ==
    << [vid |-> 1003, pid |-> 8512, report_size |-> 512],
       [vid |-> 1003, pid |-> 8513, report_size |-> 512],
       [vid |-> 1003, pid |-> 8516, report_size |-> 512],
       [vid |-> 1003, pid |-> 8465, report_size |-> 512],
       [vid |-> 1003, pid |-> 8535, report_size |-> 512],
       [vid |-> 1003, pid |-> 8553, report_size |-> 512],
       [vid |-> 1003, pid |-> 8554, report_size |-> 512],
       [vid |-> 1003, pid |-> 8560, report_size |-> 512],
       [vid |-> 0, pid |-> 0, report_size |-> 0] >>

\* variant: the loop never takes an entry's report size
RECURSIVE QuirkLoopSkip(_, _, _, _)
QuirkLoopSkip(i, target_vid, target_pid, packet_size) ==
    IF report_size_quirks[i].vid = 0 THEN packet_size
    ELSE QuirkLoopSkip(i + 1, target_vid, target_pid, packet_size)

\* the loop of open over report_size_quirks, from entry i on
RECURSIVE QuirkLoop(_, _, _, _)
QuirkLoop(i, target_vid, target_pid, packet_size) ==
    IF report_size_quirks[i].vid = 0 THEN packet_size
    ELSE QuirkLoop(i + 1, target_vid, target_pid,
                   IF /\ report_size_quirks[i].vid = target_vid
                      /\ report_size_quirks[i].pid = target_pid
                   THEN report_size_quirks[i].report_size
                   ELSE packet_size)

(***************************************************************************)
(* The devices a host may enumerate, and what a caller may ask for.        *)
(***************************************************************************)
Dev(v, p, prod, ser, ifn) ==
    [vendor_id |-> v, product_id |-> p, product_string |-> prod,
     serial_number |-> ser, interface_number |-> ifn]

SER_A1 == <<65, 49>>
SER_A12 == <<65, 49, 50>>

DeviceKinds ==
    { \* Atmel-ICE, "Atmel-ICE CMSIS-DAP"
      Dev(1003, 8513,
          Str(<<65, 116, 109, 101, 108, 45, 73, 67, 69, 32>> \o MARKER),
          Str(SER_A1), 0),
      \* LPC-LINK2, "LPC-LINK2 CMSIS-DAP", debug function on interface 0
      Dev(LPC_LINK2_VID, LPC_LINK2_PID,
          Str(<<76, 80, 67, 45, 76, 73, 78, 75, 50, 32>> \o MARKER),
          Str(SER_A1), 0),
      \* the same adapter's other HID function
      Dev(LPC_LINK2_VID, LPC_LINK2_PID,
          Str(<<76, 80, 67, 45, 76, 73, 78, 75, 50, 32>> \o MARKER),
          Str(SER_A1), 1),
      \* DAPLink, "DAPLink CMSIS-DAP", serial "A12"
      Dev(3368, 516,
          Str(<<68, 65, 80, 76, 105, 110, 107, 32>> \o MARKER),
          Str(SER_A12), 0),
      \* DAPLink whose strings cannot be read
      Dev(3368, 516, NULLSTR, NULLSTR, 0),
      \* a device reporting vendor id 0 and product id 0, "CMSIS-DAP"
      Dev(0, 0, Str(MARKER), Str(SER_A1), 0) }

Enumerations ==
    UNION { [1..n -> DeviceKinds] : n \in 0..MaxDevs }

\* vids[] and pids[] as the caller passes them: zero-terminated arrays
Filters ==
    { [vids |-> <<0>>, pids |-> <<0>>],
      [vids |-> <<LPC_LINK2_VID, 0>>, pids |-> <<LPC_LINK2_PID, 0>>],
      [vids |-> <<1003, 3368, 0>>, pids |-> <<8513, 516, 0>>] }

\* serial as the caller passes it: NULL, "A1", or bytes that are no text
Serials == { NULLSTR, Str(SER_A1), Str(<<65, 233>>) }

(***************************************************************************)
(* Device matching: the body of open's while loop.                         *)
(***************************************************************************)
\* for (i = 0; vids[i] || pids[i]; i++) if (vids[i] == vendor_id && ...)
RECURSIVE VidPidLoop(_, _, _, _)
VidPidLoop(i, vids, pids, dev) ==
    IF vids[i] = 0 /\ pids[i] = 0 THEN FALSE
    ELSE \/ (vids[i] = dev.vendor_id /\ pids[i] = dev.product_id)
         \/ VidPidLoop(i + 1, vids, pids, dev)

\* found, before the LPC-LINK2 rule
FoundBase(vids, pids, dev) ==
    IF vids[1] = 0
    THEN /\ ~dev.product_string.null
         /\ wcsstr(dev.product_string.s, MARKER)
    ELSE VidPidLoop(1, vids, pids, dev)

IsLpcLink2Other(dev) ==
    /\ dev.vendor_id = LPC_LINK2_VID
    /\ dev.product_id = LPC_LINK2_PID
    /\ dev.interface_number # 0

\* variant: the LPC-LINK2 rule left out
FoundNoLpcRule(vids, pids, dev) == FoundBase(vids, pids, dev)

\* found, as tested by if (found)
Found(vids, pids, dev) ==
    FoundBase(vids, pids, dev) /\ ~IsLpcLink2Other(dev)

(***************************************************************************)
(* The scan of the enumeration: while (cur_dev) { ... }.                   *)
(*   oom_at : the device at which malloc of wserial returns NULL (0: none) *)
(*   null0  : whether malloc(0) returns NULL on this platform              *)
(*   ubeq   : the devices at which wcscmp, reading the buffer that a       *)
(*            failed conversion left unwritten, happens to report equality *)
(* The result: st is "break" (a device was picked), "end" (cur_dev ran off *)
(* the list) or "nomem" (open returned from inside the loop); cur is the   *)
(* index of cur_dev (0 for NULL); conv_failed and ubcmp tell whether a     *)
(* conversion failed and whether wcscmp then read the unwritten buffer.    *)
(***************************************************************************)
\* wcscmp(wserial, cur_dev->serial_number) == 0 after a good conversion
SerialEqual(wserial, dev_serial) == wcscmp_eq(wserial, dev_serial)

RECURSIVE ScanFrom(_, _, _, _, _, _, _, _, _)
ScanFrom(k, devs, vids, pids, serial, oom_at, null0, ubeq, acc) ==
    IF k > Len(devs)
    THEN [st |-> "end", cur |-> 0,
          conv_failed |-> acc.conv_failed, ubcmp |-> acc.ubcmp]
    ELSE
      LET dev == devs[k]
          next(a) == ScanFrom(k + 1, devs, vids, pids, serial,
                              oom_at, null0, ubeq, a)
      IN  IF ~Found(vids, pids, dev) THEN next(acc)
          ELSE IF serial.null
          THEN [st |-> "break", cur |-> k,
                conv_failed |-> acc.conv_failed, ubcmp |-> acc.ubcmp]
          ELSE IF dev.serial_number.null THEN next(acc)
          ELSE
            LET bad == mbstowcs_fails(serial.s)
                len == wserial_len(serial.s)
                nomem == oom_at = k \/ (len = 0 /\ null0)
                acc1 == [conv_failed |-> acc.conv_failed \/ bad,
                         ubcmp |-> acc.ubcmp]
                acc2 == [conv_failed |-> acc1.conv_failed,
                         ubcmp |-> acc1.ubcmp \/ bad]
                equal == IF bad THEN k \in ubeq
                         ELSE SerialEqual(mbstowcs(serial.s),
                                          dev.serial_number.s)
            IN  IF nomem
                THEN [st |-> "nomem", cur |-> k,
                      conv_failed |-> acc1.conv_failed,
                      ubcmp |-> acc1.ubcmp]
                ELSE IF equal
                THEN [st |-> "break", cur |-> k,
                      conv_failed |-> acc2.conv_failed,
                      ubcmp |-> acc2.ubcmp]
                ELSE next(acc2)

Scan(devs, vids, pids, serial, oom_at, null0, ubeq) ==
    ScanFrom(1, devs, vids, pids, serial, oom_at, null0, ubeq,
             [conv_failed |-> FALSE, ubcmp |-> FALSE])

(***************************************************************************)
(* State.                                                                  *)
(***************************************************************************)
VARIABLES
    host,     \* what the host library and the heap hold: outstanding
              \* hid_init calls, live enumeration snapshots, open device
              \* handles, live bookkeeping records; and the open calls made
    dap,      \* struct cmsis_dap: bdata, packet_buffer, packet_size,
              \* packet_usable_size, packet_buffer_size, command, response
    handle,   \* dap->bdata->dev_handle: "none" (no record), "uninit",
              \* "open"
    live,     \* the packet buffers malloc'ed and not yet freed
    mem,      \* the bytes of the buffer dap->packet_buffer points to
    call,     \* the last backend call: its arguments and what it returned
    closable, \* an open call has returned and close was not called since
    fault     \* "none", or the undefined behaviour the program ran into

vars == <<host, dap, handle, live, mem, call, closable, fault>>

\* a pointer into a packet buffer: block 0 is NULL
NULLP == [blk |-> 0, off |-> 0]
Ptr(b, o) == [blk |-> b, off |-> o]

\* byte i (from 1) of pattern p is (p * i) % 256: what a device sends
\* (Patterns) and what malloc leaves in a fresh block (Garbage)
Patterns == {1}
Garbage == {85}
Fill(p, n) == [i \in 1..n |-> (p * i) % 256]

\* struct cmsis_dap as calloc returns it
ZeroDap == [bdata |-> 0, packet_buffer |-> 0, packet_size |-> 0,
            packet_usable_size |-> 0, packet_buffer_size |-> 0,
            command |-> NULLP, response |-> NULLP]

\* the block malloc returns: the lowest address not in use
NewBlock(lv) ==
    CHOOSE b \in 1..(Cardinality(lv) + 1) :
        b \notin lv /\ \A c \in 1..(b - 1) : c \in lv

\* the session part of the state, as the helpers below pass it around
Session == [dap |-> dap, handle |-> handle, live |-> live, mem |-> mem,
            host |-> host]

(***************************************************************************)
(* The helpers of the backend, as functions of the session part s of the   *)
(* state.                                                                  *)
(***************************************************************************)
\* variant: dap->packet_buffer set to NULL without free()
FreeLeak(s) ==
    [s EXCEPT !.dap.packet_buffer = 0,
              !.mem = <<>>]

\* cmsis_dap_hid_free
hid_free(s) ==
    [s EXCEPT !.live = s.live \ {s.dap.packet_buffer},
              !.dap.packet_buffer = 0,
              !.mem = <<>>]

\* variant: the buffer sized without REPORT_ID_SIZE
AllocNoPrefix(s, pkt_sz, malloc_fails, pat) ==
    IF malloc_fails THEN [s |-> s, ret |-> ERROR_FAIL]
    ELSE LET buf == NewBlock(s.live)
         IN  [s |-> [s EXCEPT
                       !.live = s.live \cup {buf},
                       !.mem = Fill(pat, pkt_sz),
                       !.dap.packet_buffer = buf,
                       !.dap.packet_size = pkt_sz,
                       !.dap.packet_usable_size = pkt_sz,
                       !.dap.packet_buffer_size = pkt_sz,
                       !.dap.command = Ptr(buf, REPORT_ID_SIZE),
                       !.dap.response = Ptr(buf, 0)],
              ret |-> ERROR_OK]

\* variant: the size fields stored before malloc's result is tested
AllocFailClobbers(s, pkt_sz, malloc_fails, pat) ==
    LET packet_buffer_size == pkt_sz + REPORT_ID_SIZE
    IN  IF malloc_fails
        THEN [s |-> [s EXCEPT
                       !.dap.packet_size = pkt_sz,
                       !.dap.packet_usable_size = pkt_sz,
                       !.dap.packet_buffer_size = packet_buffer_size],
              ret |-> ERROR_FAIL]
        ELSE LET buf == NewBlock(s.live)
             IN  [s |-> [s EXCEPT
                           !.live = s.live \cup {buf},
                           !.mem = Fill(pat, packet_buffer_size),
                           !.dap.packet_buffer = buf,
                           !.dap.packet_size = pkt_sz,
                           !.dap.packet_usable_size = pkt_sz,
                           !.dap.packet_buffer_size = packet_buffer_size,
                           !.dap.command = Ptr(buf, REPORT_ID_SIZE),
                           !.dap.response = Ptr(buf, 0)],
                  ret |-> ERROR_OK]

\* cmsis_dap_hid_alloc: malloc_fails says whether malloc returns NULL, pat
\* what the fresh block holds
hid_alloc(s, pkt_sz, malloc_fails, pat) ==
    LET packet_buffer_size == pkt_sz + REPORT_ID_SIZE
    IN  IF malloc_fails THEN [s |-> s, ret |-> ERROR_FAIL]
        ELSE LET buf == NewBlock(s.live)
             IN  [s |-> [s EXCEPT
                           !.live = s.live \cup {buf},
                           !.mem = Fill(pat, packet_buffer_size),
                           !.dap.packet_buffer = buf,
                           !.dap.packet_size = pkt_sz,
                           !.dap.packet_usable_size = pkt_sz,
                           !.dap.packet_buffer_size = packet_buffer_size,
                           !.dap.command = Ptr(buf, REPORT_ID_SIZE),
                           !.dap.response = Ptr(buf, 0)],
                  ret |-> ERROR_OK]

\* variant: hid_close(dap->bdata->dev_handle) left out
CloseKeepHandle(s) ==
    hid_free([s EXCEPT !.host.inits = @ - 1,
                       !.host.bdatas = @ - 1,
                       !.dap.bdata = 0,
                       !.handle = "none"])

\* variant: hid_exit() left out
CloseNoExit(s) ==
    hid_free([s EXCEPT !.host.handles = @ - 1,
                       !.host.bdatas = @ - 1,
                       !.dap.bdata = 0,
                       !.handle = "none"])

\* cmsis_dap_hid_close, called with a bookkeeping record whose handle is open
hid_close(s) ==
    hid_free([s EXCEPT !.host.handles = @ - 1,
                       !.host.inits = @ - 1,
                       !.host.bdatas = @ - 1,
                       !.dap.bdata = 0,
                       !.handle = "none"])

(***************************************************************************)
(* cmsis_dap_hid_open.  flt names the one library call that fails in this  *)
(* call, if any (every failure returns at once, so at most one is seen):   *)
(* hid_init, malloc of wserial at device flt.at, malloc of the bookkeeping *)
(* record, hid_open_path, or malloc of the packet buffer.  ub holds the    *)
(* outcomes of what the C standard leaves open after a failed conversion.  *)
(* The result carries the session after the call, the return value, the    *)
(* place of the failure, cur_dev after the loop (cur, 0 for NULL or when   *)
(* open returned from inside the loop) and the device handed to            *)
(* hid_open_path (path, 0 when that call was not reached).                 *)
(***************************************************************************)
cmsis_dap_hid_open(s, devs, vids, pids, serial, flt, ub, pat) ==
    LET sc == Scan(devs, vids, pids, serial,
                   IF flt.kind = "wserial" THEN flt.at ELSE 0,
                   ub.null0, ub.eq)
        cur == IF sc.st = "break" THEN sc.cur ELSE 0
        target_vid == IF cur # 0 THEN devs[cur].vendor_id ELSE 0
        target_pid == IF cur # 0 THEN devs[cur].product_id ELSE 0
        res(s2, ret, fail, path) ==
            [s |-> s2, ret |-> ret, fail |-> fail, cur |-> cur,
             path |-> path, conv_failed |-> sc.conv_failed,
             ubcmp |-> sc.ubcmp]
        \* hid_init() == 0; devs = hid_enumerate(0x0, 0x0)
        s1 == [s EXCEPT !.host.inits = @ + 1, !.host.enums = @ + 1]
        \* dap->bdata = malloc(...), not NULL
        s2 == [s1 EXCEPT !.dap.bdata = 1, !.host.bdatas = @ + 1,
                         !.handle = "uninit"]
        \* dev = hid_open_path(...), not NULL; hid_free_enumeration(devs);
        \* dap->bdata->dev_handle = dev
        s3 == [s2 EXCEPT !.host.enums = @ - 1, !.host.handles = @ + 1,
                         !.handle = "open"]
        packet_size == QuirkLoop(1, target_vid, target_pid,
                                 DEFAULT_PACKET_SIZE)
        a == hid_alloc(s3, packet_size, flt.kind = "buffer", pat)
    IN  IF flt.kind = "hid_init"
        THEN [s |-> s, ret |-> ERROR_FAIL, fail |-> "hid_init", cur |-> 0,
              path |-> 0, conv_failed |-> FALSE, ubcmp |-> FALSE]
        ELSE IF sc.st = "nomem"
        THEN res(s1, ERROR_FAIL, "wserial", 0)
        ELSE IF target_vid = 0 /\ target_pid = 0
        THEN res([s1 EXCEPT !.host.enums = @ - 1],
                 ERROR_FAIL, "not_found", 0)
        ELSE IF flt.kind = "bdata"
        THEN res([s1 EXCEPT !.dap.bdata = 0, !.handle = "none"],
                 ERROR_FAIL, "bdata", 0)
        ELSE IF flt.kind = "open_path"
        THEN res([s2 EXCEPT !.host.enums = @ - 1],
                 ERROR_FAIL, "open_path", cur)
        ELSE IF a.ret # ERROR_OK
        THEN res(hid_close(a.s), ERROR_FAIL, "buffer", cur)
        ELSE res([a.s EXCEPT
                    !.dap.command = Ptr(a.s.dap.packet_buffer,
                                        REPORT_ID_SIZE),
                    !.dap.response = Ptr(a.s.dap.packet_buffer, 0)],
                 ERROR_OK, "none", cur)

\* the library calls that may fail in one open call over n devices; wserial
\* is allocated only when a serial is given
Faults(n, serial) ==
    {[kind |-> k, at |-> 0] :
        k \in {"none", "hid_init", "bdata", "open_path", "buffer"}}
    \cup {[kind |-> "wserial", at |-> i] :
             i \in IF serial.null THEN {} ELSE 1..n}

\* the outcomes the platform may produce once the conversion has failed;
\* they are not consulted when it succeeds
UBChoices(serial, n) ==
    IF ~serial.null /\ mbstowcs_fails(serial.s)
    THEN {[null0 |-> TRUE, eq |-> {}]}
         \cup [null0 : {FALSE}, eq : SUBSET (1..n)]
    ELSE {[null0 |-> FALSE, eq |-> {}]}

\* what the host holds before a call
Held == [inits |-> host.inits, enums |-> host.enums,
         handles |-> host.handles, bdatas |-> host.bdatas,
         buffers |-> Cardinality(live)]

(***************************************************************************)
(* Initial state: the session as the protocol engine hands it to open      *)
(* (all fields zero), nothing held.                                        *)
(***************************************************************************)
Init ==
    /\ host = [inits |-> 0, enums |-> 0, handles |-> 0, bdatas |-> 0,
               opens |-> 0]
    /\ dap = ZeroDap
    /\ handle = "none"
    /\ live = {}
    /\ mem = <<>>
    /\ call = [op |-> "none"]
    /\ closable = FALSE
    /\ fault = "none"

SetSession(s) ==
    /\ dap' = s.dap
    /\ handle' = s.handle
    /\ live' = s.live
    /\ mem' = s.mem
    /\ host' = s.host

\* the backend's .open, called by the protocol engine on a session it has
\* just made; devs is what hid_enumerate returns at that moment
Open ==
    /\ fault = "none"
    /\ call.op = "none"
    /\ host.opens < MaxOpens
    /\ \E devs \in Enumerations, f \in Filters, serial \in Serials,
          pat \in Garbage :
         \E flt \in Faults(Len(devs), serial), ub \in UBChoices(serial, Len(devs)) :
           LET r == cmsis_dap_hid_open(
                        [Session EXCEPT !.host.opens = @ + 1],
                        devs, f.vids, f.pids, serial, flt, ub, pat)
           IN  /\ SetSession(r.s)
               /\ call' = [op |-> "open", devs |-> devs,
                           vids |-> f.vids, pids |-> f.pids,
                           serial |-> serial, ret |-> r.ret,
                           fail |-> r.fail, cur |-> r.cur, path |-> r.path,
                           conv_failed |-> r.conv_failed,
                           ubcmp |-> r.ubcmp, pre |-> Held]
    /\ closable' = TRUE
    /\ UNCHANGED fault

\* the backend's .close
Close ==
    /\ fault = "none"
    /\ closable
    /\ closable' = FALSE
    /\ call' = [op |-> "close", pre |-> Held]
    /\ IF dap.bdata = 0
       THEN \* dap->bdata->dev_handle through a NULL dap->bdata
            /\ fault' = "null_deref"
            /\ UNCHANGED <<dap, handle, live, mem, host>>
       ELSE IF handle # "open"
       THEN \* hid_close on a handle that was never set
            /\ fault' = "bad_handle"
            /\ UNCHANGED <<dap, handle, live, mem, host>>
       ELSE /\ SetSession(hid_close(Session))
            /\ UNCHANGED fault

(***************************************************************************)
(* cmsis_dap_hid_read.                                                     *)
(***************************************************************************)
Timeouts == {0, 100}
Blockings == {CMSIS_DAP_BLOCKING, CMSIS_DAP_NON_BLOCKING}

\* variant: the blocking mode ignored
WaitMsIgnoreBlocking(transfer_timeout_ms, blocking) == transfer_timeout_ms

\* int wait_ms = (blocking == CMSIS_DAP_NON_BLOCKING) ? 0 : transfer_timeout_ms
WaitMs(transfer_timeout_ms, blocking) ==
    IF blocking = CMSIS_DAP_NON_BLOCKING THEN 0 ELSE transfer_timeout_ms

\* variant: a result of 0 reported like -1
ReadReturnTimeoutAsFail(retval) ==
    IF retval = 0 \/ retval = -1 THEN ERROR_FAIL ELSE retval

\* what read returns for the result retval of hid_read_timeout
ReadReturn(retval) ==
    IF retval = 0 THEN ERROR_TIMEOUT_REACHED
    ELSE IF retval = -1 THEN ERROR_FAIL
    ELSE retval

\* what hid_read_timeout may return for a buffer of the given size: -1 on
\* error, 0 when nothing arrived in time, else the number of bytes read
ReadResults(size) == {-1, 0} \cup ({1, size} \cap 1..size)

\* the buffer once the device's n bytes (pattern pat) are stored in it
Received(m, n, pat) ==
    [i \in 1..Len(m) |-> IF i <= n THEN (pat * i) % 256 ELSE m[i]]

\* the backend's .read.  hid_read_timeout is given dap->packet_buffer and
\* dap->packet_buffer_size as they are: when the buffer is NULL, storing
\* the bytes that arrived goes through NULL
Read ==
    /\ fault = "none"
    /\ handle = "open"
    /\ \E transfer_timeout_ms \in Timeouts, blocking \in Blockings,
          pat \in Patterns,
          retval \in ReadResults(dap.packet_buffer_size) :
         /\ mem' = IF retval > 0 /\ dap.packet_buffer # 0
                   THEN Received(mem, retval, pat) ELSE mem
         /\ fault' = IF retval > 0 /\ dap.packet_buffer = 0
                     THEN "null_deref" ELSE fault
         /\ call' = [op |-> "read",
                     transfer_timeout_ms |-> transfer_timeout_ms,
                     blocking |-> blocking,
                     wait_ms |-> WaitMs(transfer_timeout_ms, blocking),
                     retval |-> retval,
                     ret |-> ReadReturn(retval)]
    /\ UNCHANGED <<host, dap, handle, live, closable>>

(***************************************************************************)
(* cmsis_dap_hid_write.  timeout_ms is cast to void: it is no input of the *)
(* model.  call.frame is what hid_write is handed: packet_buffer_size      *)
(* bytes from packet_buffer; call.payload is what the caller had put at    *)
(* command[0 .. txlen-1].                                                  *)
(***************************************************************************)
\* the payload lengths tried on a session of the given packet size
TxLens(packet_size) ==
    {n \in {0, 1, packet_size - 1, packet_size, packet_size + 1} : n >= 0}

\* the stores of write stay inside the packet buffer: packet_buffer[0], and
\* memset(dap->command + txlen, 0, dap->packet_size - txlen), whose length
\* is unsigned and wraps to a huge value when txlen > packet_size
WriteInBounds(d, txlen) ==
    /\ d.packet_buffer # 0
    /\ d.packet_buffer_size >= 1
    /\ d.command.blk = d.packet_buffer
    /\ txlen <= d.packet_size
    /\ d.command.off + txlen + (d.packet_size - txlen) <= d.packet_buffer_size

\* variant: the memset left out
WriteFrameNoPad(m, d, txlen) ==
    [i \in 1..Len(m) |-> IF i = 1 THEN 0 ELSE m[i]]

\* the packet buffer after packet_buffer[0] = 0 and the memset
WriteFrame(m, d, txlen) ==
    [i \in 1..Len(m) |->
        IF i = 1 THEN 0
        ELSE IF /\ i - 1 >= d.command.off + txlen
                /\ i - 1 < d.command.off + txlen + (d.packet_size - txlen)
             THEN 0
             ELSE m[i]]

\* what write returns for the result retval of hid_write
WriteReturn(retval) == IF retval = -1 THEN ERROR_FAIL ELSE retval

\* the backend's .write
Write ==
    /\ fault = "none"
    /\ handle = "open"
    /\ \E txlen \in TxLens(dap.packet_size) :
         IF WriteInBounds(dap, txlen)
         THEN \E retval \in {-1, dap.packet_buffer_size} :
                /\ mem' = WriteFrame(mem, dap, txlen)
                /\ call' = [op |-> "write", txlen |-> txlen,
                            frame |-> SubSeq(mem', 1, dap.packet_buffer_size),
                            payload |-> SubSeq(mem, dap.command.off + 1,
                                               dap.command.off + txlen),
                            retval |-> retval,
                            ret |-> WriteReturn(retval)]
                /\ UNCHANGED fault
         ELSE /\ fault' = IF dap.packet_buffer = 0 THEN "null_deref"
                          ELSE "out_of_bounds"
              /\ call' = [op |-> "write", txlen |-> txlen]
              /\ UNCHANGED mem
    /\ UNCHANGED <<host, dap, handle, live, closable>>

(***************************************************************************)
(* The backend's .packet_buffer_alloc, .packet_buffer_free and .cancel_all. *)
(***************************************************************************)
\* the sizes the protocol engine asks for
PacketSizes == {1, 64, 512}

\* called by the protocol engine on its open session, after it has freed
\* the buffer it replaces; call.failed_sz is the size asked for by the call
\* before this one when that was an allocate that failed, and 0 otherwise
Alloc ==
    /\ fault = "none"
    /\ handle = "open"
    /\ dap.packet_buffer = 0
    /\ \E pkt_sz \in PacketSizes, malloc_fails \in BOOLEAN,
          pat \in Garbage :
         LET a == hid_alloc(Session, pkt_sz, malloc_fails, pat)
         IN  /\ SetSession(a.s)
             /\ call' = [op |-> "alloc", pkt_sz |-> pkt_sz, ret |-> a.ret,
                         failed_sz |-> IF /\ call.op = "alloc"
                                          /\ call.ret # ERROR_OK
                                       THEN call.pkt_sz ELSE 0]
    /\ UNCHANGED <<closable, fault>>

Free ==
    /\ fault = "none"
    /\ handle = "open"
    /\ SetSession(hid_free(Session))
    /\ call' = [op |-> "free"]
    /\ UNCHANGED <<closable, fault>>

\* cmsis_dap_hid_cancel_all: an empty body
CancelAll ==
    /\ fault = "none"
    /\ call' = [op |-> "cancel_all"]
    /\ UNCHANGED <<host, dap, handle, live, mem, closable, fault>>

\* The protocol engine is done with a session whose open failed or which it
\* has closed: it frees the struct and makes a zeroed one for the next open.
\* What the host and the heap still hold stays held.
Discard ==
    /\ fault = "none"
    /\ handle # "open"
    /\ call.op \in {"open", "close"}
    /\ dap' = ZeroDap
    /\ handle' = "none"
    /\ mem' = <<>>
    /\ call' = [op |-> "none"]
    /\ closable' = FALSE
    /\ UNCHANGED <<host, live, fault>>

Next ==
    Open \/ Close \/ Read \/ Write \/ Alloc \/ Free \/ CancelAll \/ Discard

Spec == Init /\ [][Next]_vars

(***************************************************************************)
(* Properties.  They speak of the state in which a call has just returned: *)
(* call holds the call's arguments and results, host what is held now and  *)
(* call.pre what was held when the call was made.                          *)
(***************************************************************************)
OpenReturned == call.op = "open"

\* open's scan ran to its end: open did not return before or inside the loop
ScanCompleted == OpenReturned /\ call.fail \notin {"hid_init", "wserial"}

\* the device open goes on with after the scan (0: none)
Selected ==
    IF OpenReturned /\ call.fail # "not_found" THEN call.cur ELSE 0

\* the pairs of a zero-terminated filter
FilterPairs(vids, pids) ==
    LET n == CHOOSE k \in 1..Len(vids) :
                 /\ vids[k] = 0 /\ pids[k] = 0
                 /\ \A j \in 1..(k - 1) : vids[j] # 0 \/ pids[j] # 0
    IN  {<<vids[j], pids[j]>> : j \in 1..(n - 1)}

ContainsMarker(str) ==
    /\ ~str.null
    /\ \E i \in 1..Len(str.s) :
          /\ i + Len(MARKER) - 1 <= Len(str.s)
          /\ \A j \in 1..Len(MARKER) : str.s[i + j - 1] = MARKER[j]

\* the predicate of the matcher as the specification words it: the product
\* string marker or the vendor/product pair, the composite adapter's rule,
\* and the serial when one is asked for
Matches(vids, pids, serial, dev) ==
    /\ IF vids[1] = 0
       THEN ContainsMarker(dev.product_string)
       ELSE <<dev.vendor_id, dev.product_id>> \in FilterPairs(vids, pids)
    /\ ~(/\ dev.vendor_id = 8137 /\ dev.product_id = 144
         /\ dev.interface_number # 0)
    /\ ~serial.null =>
          /\ ~dev.serial_number.null
          /\ Len(dev.serial_number.s) = Len(serial.s)
          /\ \A i \in 1..Len(serial.s) : dev.serial_number.s[i] = serial.s[i]

\* the first device of the call's enumeration that matches (0: none)
FirstMatch ==
    LET ok == {i \in 1..Len(call.devs) :
                  Matches(call.vids, call.pids, call.serial, call.devs[i])}
    IN  IF ok = {} THEN 0 ELSE CHOOSE i \in ok : \A j \in ok : i <= j

(***************************************************************************)
(* C1.  In every open call whose scan ran to its end, the device open goes *)
(* on with is the first device of the enumeration that satisfies the       *)
(* matcher's predicate, and none when no device satisfies it.              *)
(***************************************************************************)
C1_FirstMatchSelected == ScanCompleted => Selected = FirstMatch

(***************************************************************************)
(* C2.  The device open goes on with is never the composite adapter        *)
(* (0x1fc9:0x0090) on an interface other than 0; and when the first        *)
(* matching device is that adapter on interface 0, in a call whose serial  *)
(* (if any) converts, it is the device open goes on with.                  *)
(***************************************************************************)
IsComposite(dev) == dev.vendor_id = 8137 /\ dev.product_id = 144

C2_CompositeOnlyOnInterface0 ==
    OpenReturned =>
      /\ Selected # 0 =>
            ~(/\ IsComposite(call.devs[Selected])
              /\ call.devs[Selected].interface_number # 0)
      /\ call.path # 0 =>
            ~(/\ IsComposite(call.devs[call.path])
              /\ call.devs[call.path].interface_number # 0)
      /\ ( /\ ScanCompleted
           /\ ~call.conv_failed
           /\ FirstMatch # 0
           /\ IsComposite(call.devs[FirstMatch]) )
         => Selected = FirstMatch

\* the composite adapter's other interface comes first and is listed in the
\* filter; open goes on with the adapter's interface 0, which comes after it
C2_Witness ==
    /\ OpenReturned
    /\ call.vids[1] = 8137 /\ call.pids[1] = 144
    /\ Len(call.devs) = 2
    /\ IsComposite(call.devs[1]) /\ call.devs[1].interface_number # 0
    /\ IsComposite(call.devs[2]) /\ call.devs[2].interface_number = 0
    /\ call.path = 2
    /\ call.ret = ERROR_OK

(***************************************************************************)
(* C3.  When open returns an error, nothing it acquired is still held: the *)
(* enumeration snapshots, bookkeeping records, device handles and packet   *)
(* buffers held are those held before the call.                            *)
(***************************************************************************)
C3_FailedOpenHoldsNothing ==
    (OpenReturned /\ call.ret # ERROR_OK) =>
      /\ host.enums = call.pre.enums
      /\ host.bdatas = call.pre.bdatas
      /\ host.handles = call.pre.handles
      /\ Cardinality(live) = call.pre.buffers

(***************************************************************************)
(* C4.  When open fails at the allocation of the packet buffer, after      *)
(* hid_open_path has returned a handle, it returns an error and the handle *)
(* is closed: no handle opened by the call is open.                        *)
(***************************************************************************)
C4_HandleClosedOnBufferFailure ==
    (OpenReturned /\ call.fail = "buffer") =>
      /\ call.ret = ERROR_FAIL
      /\ host.handles = call.pre.handles
      /\ handle # "open"

C4_Witness ==
    /\ OpenReturned
    /\ call.fail = "buffer"
    /\ call.path # 0
    /\ host.handles = 0

(***************************************************************************)
(* C5.  After a successful open, packet_size is the quirk table's report   *)
(* size for the opened device's vendor and product id when the table lists *)
(* them and 64 otherwise; for 0x03eb:0x2141 packet_size is 512 and         *)
(* packet_buffer_size 513.                                                 *)
(***************************************************************************)
QuirkEntries ==
    {report_size_quirks[i] : i \in 1..(Len(report_size_quirks) - 1)}

C5_PacketSizeFromQuirks ==
    (OpenReturned /\ call.ret = ERROR_OK) =>
      LET dev == call.devs[call.path]
          hit == {q \in QuirkEntries :
                     q.vid = dev.vendor_id /\ q.pid = dev.product_id}
      IN  /\ hit # {} => \A q \in hit : dap.packet_size = q.report_size
          /\ hit = {} => dap.packet_size = 64
          /\ (dev.vendor_id = 1003 /\ dev.product_id = 8513) =>
                dap.packet_size = 512 /\ dap.packet_buffer_size = 513

C5_Witness ==
    /\ OpenReturned
    /\ call.ret = ERROR_OK
    /\ call.devs[call.path].vendor_id = 1003
    /\ call.devs[call.path].product_id = 8513
    /\ call.vids[1] = 0
    /\ dap.packet_size = 512

(***************************************************************************)
(* C6.  Whenever the session has a packet buffer, packet_buffer_size is    *)
(* packet_size + 1, command points at offset 1 of the buffer and response  *)
(* at offset 0: after open, after a direct allocate, and after any read,   *)
(* write or cancel_all that follows.                                       *)
(***************************************************************************)
C6_BufferLayout ==
    dap.packet_buffer # 0 =>
      /\ dap.packet_buffer \in live
      /\ dap.packet_buffer_size = dap.packet_size + 1
      /\ Len(mem) = dap.packet_buffer_size
      /\ dap.command = [blk |-> dap.packet_buffer, off |-> 1]
      /\ dap.response = [blk |-> dap.packet_buffer, off |-> 0]

\* a write on a buffer of packet size 1, which only a direct allocate makes
C6_Witness ==
    /\ call.op = "write"
    /\ fault = "none"
    /\ dap.packet_buffer # 0
    /\ dap.packet_size = 1
    /\ dap.packet_buffer_size = 2

(***************************************************************************)
(* C7.  A write with payload_length < packet_size hands the transport a    *)
(* frame of packet_buffer_size bytes: byte 0 is 0, the payload_length      *)
(* bytes after it are the caller's command bytes, every byte after those   *)
(* is 0.                                                                   *)
(***************************************************************************)
C7_WriteFrame ==
    (call.op = "write" /\ fault = "none" /\ call.txlen < dap.packet_size) =>
      /\ Len(call.frame) = dap.packet_buffer_size
      /\ call.frame[1] = 0
      /\ \A i \in 1..call.txlen : call.frame[1 + i] = call.payload[i]
      /\ \A i \in (call.txlen + 2)..Len(call.frame) : call.frame[i] = 0

\* a one-byte payload, not zero, on a 64-byte packet
C7_Witness ==
    /\ call.op = "write"
    /\ fault = "none"
    /\ call.txlen = 1
    /\ dap.packet_size = 64
    /\ Len(call.frame) = 65
    /\ call.payload[1] # 0

(***************************************************************************)
(* C8.  read returns ERROR_TIMEOUT_REACHED, not ERROR_FAIL, when the       *)
(* transport returns 0; ERROR_FAIL when the transport returns a negative   *)
(* result; and the transport's result itself when it is positive.          *)
(***************************************************************************)
C8_ReadResult ==
    call.op = "read" =>
      /\ call.retval = 0 =>
            call.ret = ERROR_TIMEOUT_REACHED /\ call.ret # ERROR_FAIL
      /\ call.retval < 0 => call.ret = ERROR_FAIL
      /\ call.retval > 0 => call.ret = call.retval

C8_Witness ==
    /\ call.op = "read"
    /\ call.retval = 0
    /\ call.ret = ERROR_TIMEOUT_REACHED

(***************************************************************************)
(* C9.  When a serial is given, the device picked by the scan has a serial *)
(* number and it equals the requested serial as a whole string.            *)
(***************************************************************************)
C9_SerialExact ==
    (OpenReturned /\ ~call.serial.null /\ call.cur # 0) =>
      /\ ~call.devs[call.cur].serial_number.null
      /\ call.devs[call.cur].serial_number.s = call.serial.s

(***************************************************************************)
(* C10.  When the conversion of the requested serial fails during open,    *)
(* open returns an error, and wcscmp is never given the unconverted        *)
(* buffer.                                                                 *)
(***************************************************************************)
C10_ConversionFailureIsError ==
    (OpenReturned /\ call.conv_failed) =>
      /\ call.ret = ERROR_FAIL
      /\ ~call.ubcmp

(***************************************************************************)
(* C11.  In every open call that obtained an enumeration snapshot (every   *)
(* call in which hid_init succeeded), the snapshot has been released when  *)
(* open returns: no more snapshots are held than before the call.          *)
(***************************************************************************)
C11_SnapshotReleased ==
    (OpenReturned /\ call.fail # "hid_init") =>
      host.enums = call.pre.enums

(***************************************************************************)
(* C12.  A close called once, right after an open that succeeded or that   *)
(* failed after the bookkeeping record was allocated (at hid_open_path or  *)
(* at the packet buffer), is safe: it dereferences no NULL bookkeeping     *)
(* record, closes no handle that is not open and frees no buffer that is   *)
(* not allocated.                                                          *)
(***************************************************************************)
C12_CloseAfterOpenSafe ==
    [][ ( /\ OpenReturned
          /\ call.fail \in {"none", "open_path", "buffer"}
          /\ call'.op = "close" )
        => fault' = "none" ]_vars

(***************************************************************************)
(* C13.  After a close that returned, the device handle is closed, hid_exit *)
(* has been called, the bookkeeping record is freed and dap->bdata is      *)
(* NULL, and the packet buffer is freed and dap->packet_buffer is NULL.    *)
(***************************************************************************)
C13_CloseTearsDown ==
    (call.op = "close" /\ fault = "none") =>
      /\ handle = "none"
      /\ host.handles = call.pre.handles - 1
      /\ host.inits = call.pre.inits - 1
      /\ host.bdatas = call.pre.bdatas - 1
      /\ dap.bdata = 0
      /\ live = {}
      /\ dap.packet_buffer = 0

\* a close of a session that held a handle, a record and a packet buffer
C13_Witness ==
    /\ call.op = "close"
    /\ fault = "none"
    /\ call.pre.handles = 1
    /\ call.pre.inits = 1
    /\ call.pre.bdatas = 1
    /\ call.pre.buffers = 1
    /\ host.handles = 0
    /\ live = {}

(***************************************************************************)
(* C14.  After packet_buffer_free, called directly or through close, the   *)
(* buffer is released and command and response are NULL: in no state is    *)
(* dap->packet_buffer NULL while command or response points somewhere.     *)
(***************************************************************************)
C14_ViewsClearedOnFree ==
    /\ (call.op \in {"free", "close"} /\ fault = "none") =>
          dap.packet_buffer = 0
    /\ dap.packet_buffer = 0 =>
          dap.command = NULLP /\ dap.response = NULLP

C16_FailedAllocChangesNothing ==
    [][ (call' # call /\ call'.op = "alloc" /\ call'.ret # ERROR_OK) =>
          /\ call'.ret = ERROR_FAIL
          /\ dap' = dap
          /\ handle' = handle
          /\ live' = live
          /\ mem' = mem
          /\ host' = host
          /\ fault' = "none" ]_vars

\* an allocate of 1 byte that succeeded right after an allocate of 64 bytes
\* that failed
C16_Witness ==
    /\ call.op = "alloc"
    /\ call.ret = ERROR_OK
    /\ call.failed_sz = 64
    /\ call.pkt_sz = 1
    /\ dap.packet_size = 1
    /\ dap.packet_buffer # 0
    /\ handle = "open"

(***************************************************************************)
(* C17.  For every timeout, read passes hid_read_timeout a wait of 0 when  *)
(* blocking is CMSIS_DAP_NON_BLOCKING and the timeout itself when it is    *)
(* CMSIS_DAP_BLOCKING; nothing else enters the wait.                       *)
(***************************************************************************)
C17_WaitFromBlocking ==
    call.op = "read" =>
      /\ call.blocking = CMSIS_DAP_NON_BLOCKING => call.wait_ms = 0
      /\ call.blocking = CMSIS_DAP_BLOCKING =>
            call.wait_ms = call.transfer_timeout_ms

\* a non-blocking read with a timeout of 100 ms waits 0 ms
C17_Witness ==
    /\ call.op = "read"
    /\ call.blocking = CMSIS_DAP_NON_BLOCKING
    /\ call.transfer_timeout_ms = 100
    /\ call.wait_ms = 0

(***************************************************************************)
(* C18.  Open reports not found exactly when its scan picked no device:    *)
(* every device the scan picks, a device with vendor id 0 and product id 0 *)
(* whose product string contains "CMSIS-DAP" included, goes on to          *)
(* hid_open_path unless the bookkeeping malloc fails first.                *)
(***************************************************************************)
C18_NotFoundIffNonePicked ==
    ScanCompleted =>
      /\ call.fail = "not_found" <=> call.cur = 0
      /\ (call.cur # 0 /\ call.fail # "bdata") => call.path = call.cur

(***************************************************************************)
(* C19.  After any sequence of open and close calls, the number of         *)
(* hid_init calls that succeeded and are not yet matched by a hid_exit is  *)
(* the number of open sessions, 0 or 1; a failed open leaves none.         *)
(***************************************************************************)
C19_InitsMatchOpenSessions ==
    /\ fault = "none" =>
          host.inits = (IF handle = "open" THEN 1 ELSE 0)
    /\ (OpenReturned /\ call.ret # ERROR_OK) =>
          host.inits = call.pre.inits

(***************************************************************************)
(* C20.  For every payload length given to write on a session with a       *)
(* packet buffer, lengths equal to and greater than packet_size included,  *)
(* the length of the padding does not wrap and write stores only inside    *)
(* the packet buffer.                                                      *)
(***************************************************************************)
C20_PaddingInBounds ==
    (call.op = "write" /\ dap.packet_buffer # 0) =>
      /\ call.txlen <= dap.packet_size
      /\ fault = "none"

=============================================================================
